---- MODULE Spec2Model ----
(***************************************************************************)
(* quipe: a single-producer, multi-consumer message queue on a named pipe. *)
(* The model follows src/src/lib.rs one system call at a time: every       *)
(* action is one libc call of one thread together with the local code that *)
(* runs up to the next libc call.  The kernel side (FIFO buffer, open      *)
(* counts, flock table) is modelled by the libc_* operators.               *)
(***************************************************************************)
EXTENDS Integers, Sequences, FiniteSets, TLC

\* ------------------------------------------------------------------ bounds
NumReaders == 2     \* reader contexts (threads or processes)
NumQueues == 2      \* contexts that call PipeQueue::create on the path
MaxSends == 2       \* send() calls made on the queue handle
MaxReceives == 2    \* receive() calls made on the reader handles, in all
PipeCap == 4        \* capacity of the kernel's pipe buffer, in bytes
MaxLen == 1         \* longest payload the caller passes to send()

\* ------------------------------------------------------- program constants
ENOENT == 2
ENXIO == 6
EAGAIN == 11
EEXIST == 17
EPIPE == 32
LOCK_EX == 2
LOCK_UN == 8
LenBytes == 4       \* std::mem::size_of::<u32>()
Limb == 65536       \* 2^16: u32::MAX is Limb * Limb - 1

Readers == 1..NumReaders
Queues == 1..NumQueues

\* Payload bytes the callers use.  Every byte is below 128, so that a length
\* decoded from any four of them stays below 2^31.
PayloadBytes == {1, 7}

RECURSIVE SeqsUpTo(_)
SeqsUpTo(n) ==
    IF n = 0 THEN {<<>>}
    ELSE LET S == SeqsUpTo(n - 1)
         IN S \cup {Append(s, b) : s \in {t \in S : Len(t) = n - 1}, b \in PayloadBytes}

Payloads == SeqsUpTo(MaxLen)

\* b"Hello, reader!" of tests::test_mainline_scenario
Hello == <<72, 101, 108, 108, 111, 44, 32, 114, 101, 97, 100, 101, 114, 33>>

Min(a, b) == IF a < b THEN a ELSE b

VARIABLES
    env,        \* the run's setting: the payloads the producer's caller draws
                \* from, the pipe's capacity, and whether the kernel moves as
                \* many bytes per call as it can (greedy) or any allowed count
    fs,         \* what exists at the path: "none" or "fifo"
    pipe,       \* bytes buffered in the kernel for the FIFO, oldest first
    lock,       \* reader descriptors holding the flock on the FIFO
    qpc,        \* per creating context: position in create / send / drop
    qdata,      \* write_all's `data`: the part of the frame still to write
    qlen,       \* `data.len()` of the send() call made last, as a usize
    qerr,       \* the error create() returned, if any
    sent,       \* log of send() calls: payload, outcome, and the bytes the
                \* call's libc::write calls appended to the pipe
    rpc,        \* per reader context: position in new / receive / drop
    rbuf,       \* bytes read_all has stored into its buffer so far
    rneed,      \* read_all's `data.len()`: bytes still to read
    rlen,       \* msg_len decoded by read_message
    rerr,       \* the error PipeReader::new returned, if any
    rlog        \* per reader: results of its receive() calls, in order

vars == <<env, fs, pipe, lock, qpc, qdata, qlen, qerr, sent,
          rpc, rbuf, rneed, rlen, rerr, rlog>>

qvars == <<qpc, qdata, qlen, qerr, sent>>
rvars == <<rpc, rbuf, rneed, rlen, rerr, rlog>>

\* ---------------------------------------------------------- error values
\* error.rs: an Error is a message (with the errno rendered into it).
NoError == [message |-> "", errno |-> 0]
Error_new(m, e) == [message |-> m, errno |-> e]
Ok(v) == [ok |-> TRUE, val |-> v, err |-> NoError]
Err(e) == [ok |-> FALSE, val |-> <<>>, err |-> e]

\* errno.rs
Errno_from(n) == n
is_enoent(e) == e = ENOENT
\* A would-block test against the wrong code.
is_eagain_wrong_code(e) == e = ENXIO
is_eagain(e) == e = EAGAIN

\* ------------------------------------------------------------ kernel view
OpenReaders == {r \in Readers : rpc[r] \in {"idle", "read_len", "read_payload", "release"}}
OpenWriters == {q \in Queues : qpc[q] \in {"live", "sending", "panicked"}}

\* Bytes of the FIFO's buffer are dropped when its last descriptor is closed.
AfterClose(readers, writers) == IF readers = {} /\ writers = {} THEN <<>> ELSE pipe

\* libc::open on the FIFO path.  `nul` says whether the byte that follows the
\* path's bytes in memory happens to be 0: lib.rs:32 passes the path's bytes
\* without a terminator, so the kernel may see a longer name, at which
\* nothing exists.
libc_open(nul, write) ==
    IF ~nul \/ fs = "none" THEN [ret |-> -1, errno |-> ENOENT]
    ELSE IF write /\ OpenReaders = {} THEN [ret |-> -1, errno |-> ENXIO]
    ELSE [ret |-> 3, errno |-> 0]

\* libc::mkfifo on the path (a CString, so the kernel sees the path itself).
libc_mkfifo ==
    IF fs = "none" THEN [ret |-> 0, errno |-> 0] ELSE [ret |-> -1, errno |-> EEXIST]

\* The byte counts one read or write call may move when at most `most` bytes
\* can be moved.
Counts(most) == IF env.greedy THEN {most} ELSE 1..most

\* libc::read(fd, buf, count) on a non-blocking FIFO descriptor: the outcomes
\* the kernel may produce.
libc_read(count) ==
    IF count = 0 THEN {[ret |-> 0, errno |-> 0]}
    ELSE IF pipe # <<>> THEN {[ret |-> k, errno |-> 0] : k \in Counts(Min(Len(pipe), count))}
    ELSE IF OpenWriters = {} THEN {[ret |-> 0, errno |-> 0]}
    ELSE {[ret |-> -1, errno |-> EAGAIN]}

\* libc::write(fd, buf, count) on a non-blocking FIFO descriptor.
libc_write(count) ==
    IF OpenReaders = {} THEN {[ret |-> -1, errno |-> EPIPE]}
    ELSE IF Len(pipe) >= env.cap THEN {[ret |-> -1, errno |-> EAGAIN]}
    ELSE {[ret |-> k, errno |-> 0] : k \in Counts(Min(env.cap - Len(pipe), count))}

\* libc::flock(fd, operation) on the descriptor of reader r: the flock table
\* afterwards.  LOCK_EX is granted only when no other descriptor holds it.
libc_flock(l, r, operation) ==
    IF operation = LOCK_UN THEN l \ {r}
    ELSE IF operation = LOCK_EX /\ l \subseteq {r} THEN {r}
    ELSE l

\* --------------------------------------------------------------- lib.rs
\* fn open: the Result it makes of libc::open's return value.
open(res) ==
    IF res.ret < 0 THEN Error_new("Failed to open file", Errno_from(res.ret))
    ELSE NoError

\* A mkfifo that does not look at libc::mkfifo's return value.
mkfifo_unchecked(res) == NoError

\* fn mkfifo: the Result it makes of libc::mkfifo's return value.
mkfifo(res) ==
    IF res.ret < 0 THEN Error_new("failed to create FIFO", res.errno)
    ELSE NoError

\* u32::to_be_bytes / u32::from_be_bytes
to_be_bytes(n) ==
    <<(n \div 16777216) % 256, (n \div 65536) % 256, (n \div 256) % 256, n % 256>>
from_be_bytes(b) == b[1] * 16777216 + b[2] * 65536 + b[3] * 256 + b[4]

\* A usize is kept as two 16-bit limbs, hi * Limb + lo, so that lengths
\* beyond u32::MAX = Limb * Limb - 1 can be written down.
usize(n) == [hi |-> n \div Limb, lo |-> n % Limb]

\* A conversion that keeps the low 32 bits (`len as u32`).
u32_wrapping(n) == [ok |-> TRUE, val |-> (n.hi % Limb) * Limb + n.lo]

\* u32::try_from(usize): the value when it is at most u32::MAX, an error
\* otherwise.
u32_try_from(n) ==
    IF n.hi < Limb THEN [ok |-> TRUE, val |-> n.hi * Limb + n.lo]
    ELSE [ok |-> FALSE, val |-> 0]

\* A message whose length field counts the length field's own bytes too.
Message_len_of_whole(len32, bytes) == to_be_bytes(len32 + LenBytes) \o bytes

\* PipeQueue::send: the message it builds from the converted length and the
\* caller's bytes.
Message(len32, bytes) == to_be_bytes(len32) \o bytes

\* PipeQueue::send: the frame it hands to write_all.
Frame(data) == Message(Len(data), data)

\* The slices a caller passes to send(): the bytes and their count.  Of a
\* slice longer than u32::MAX only the first bytes are written down.
Slice(data) == [bytes |-> data, len |-> usize(Len(data))]
Bulk == <<1>>
TooLong == {[bytes |-> Bulk, len |-> [hi |-> Limb, lo |-> k]] : k \in {0, 1}}

\* The slice `&data[n..]` of read_all and write_all.
Advance(data, n) == SubSeq(data, n + 1, Len(data))

\* read_all / write_all: `while !data.is_empty()`.
LoopDone(need) == need = 0

\* AdvisoryLock::new(fd): stores the descriptor; no libc call is made.
AdvisoryLock_new(l, r) == l

\* A drop that passes LOCK_EX where LOCK_UN is meant.
AdvisoryLock_drop_ex(l, r) == libc_flock(l, r, LOCK_EX)

\* Drop for AdvisoryLock: flock(self.fd, LOCK_UN).
AdvisoryLock_drop(l, r) == libc_flock(l, r, LOCK_UN)

\* ---------------------------------------------------------------- Init
TypeInit ==
    /\ pipe = <<>>
    /\ lock = {}
    /\ qpc = [q \in Queues |-> "start"]
    /\ qdata = [q \in Queues |-> <<>>]
    /\ qlen = [q \in Queues |-> usize(0)]
    /\ qerr = [q \in Queues |-> NoError]
    /\ sent = <<>>
    /\ rpc = [r \in Readers |-> "start"]
    /\ rbuf = [r \in Readers |-> <<>>]
    /\ rneed = [r \in Readers |-> 0]
    /\ rlen = [r \in Readers |-> 0]
    /\ rerr = [r \in Readers |-> NoError]
    /\ rlog = [r \in Readers |-> <<>>]

\* The path is fresh, or holds a FIFO that an earlier run left behind.
Init ==
    /\ env = [payloads |-> Payloads, oversize |-> TooLong, cap |-> PipeCap, greedy |-> FALSE]
    /\ fs \in {"none", "fifo"}
    /\ TypeInit

\* ------------------------------------------------------ PipeQueue::create
\* A create that removes what is at the path when mkfifo fails.
Create_mkfifo_cleanup(q) ==
    /\ qpc[q] = "start"
    /\ LET res == libc_mkfifo
           e == mkfifo(res)
       IN /\ IF e = NoError
             THEN /\ fs' = "fifo"
                  /\ qpc' = [qpc EXCEPT ![q] = "opening"]
                  /\ qerr' = qerr
             ELSE /\ fs' = "none"
                  /\ qpc' = [qpc EXCEPT ![q] = "failed"]
                  /\ qerr' = [qerr EXCEPT ![q] = e]
    /\ UNCHANGED <<env, pipe, lock, qdata, qlen, sent, rvars>>

\* create, first call: mkfifo(path, S_IRWXU)?
Create_mkfifo(q) ==
    /\ qpc[q] = "start"
    /\ LET res == libc_mkfifo
           e == mkfifo(res)
       IN /\ IF e = NoError
             THEN /\ fs' = "fifo"
                  /\ qpc' = [qpc EXCEPT ![q] = "opening"]
                  /\ qerr' = qerr
             ELSE /\ fs' = fs
                  /\ qpc' = [qpc EXCEPT ![q] = "failed"]
                  /\ qerr' = [qerr EXCEPT ![q] = e]
    /\ UNCHANGED <<env, pipe, lock, qdata, qlen, sent, rvars>>

\* A create that removes the FIFO again when its open fails.
Create_open_unlink(q) ==
    /\ qpc[q] = "opening"
    /\ \E nul \in BOOLEAN :
         LET res == libc_open(nul, TRUE)
             e == open(res)
         IN /\ IF e = NoError
               THEN /\ qpc' = [qpc EXCEPT ![q] = "live"]
                    /\ qerr' = qerr
                    /\ fs' = fs
               ELSE /\ qpc' = [qpc EXCEPT ![q] = "failed"]
                    /\ qerr' = [qerr EXCEPT ![q] = e]
                    /\ fs' = "none"
    /\ UNCHANGED <<env, pipe, lock, qdata, qlen, sent, rvars>>

\* create, second call: open(path, O_WRONLY | O_NONBLOCK, 0)?
Create_open(q) ==
    /\ qpc[q] = "opening"
    /\ \E nul \in BOOLEAN :
         LET res == libc_open(nul, TRUE)
             e == open(res)
         IN /\ IF e = NoError
               THEN /\ qpc' = [qpc EXCEPT ![q] = "live"]
                    /\ qerr' = qerr
               ELSE /\ qpc' = [qpc EXCEPT ![q] = "failed"]
                    /\ qerr' = [qerr EXCEPT ![q] = e]
    /\ UNCHANGED <<env, fs, pipe, lock, qdata, qlen, sent, rvars>>

\* -------------------------------------------------------- PipeQueue::send
\* send, up to the call of write_all: the length is converted with
\* u32::try_from(..).expect("message too long"), which panics when it does
\* not fit, and the frame is built.
Send_begin(q) ==
    /\ qpc[q] = "live"
    /\ Len(sent) < MaxSends
    /\ \E arg \in {Slice(d) : d \in env.payloads} \cup env.oversize :
         LET len32 == u32_try_from(arg.len)
         IN /\ qlen' = [qlen EXCEPT ![q] = arg.len]
            /\ IF len32.ok
               THEN /\ qdata' = [qdata EXCEPT ![q] = Message(len32.val, arg.bytes)]
                    /\ sent' = Append(sent, [payload |-> arg.bytes, res |-> "pending",
                                          wrote |-> <<>>])
                    /\ qpc' = [qpc EXCEPT ![q] = "sending"]
               ELSE /\ qpc' = [qpc EXCEPT ![q] = "panicked"]
                    /\ UNCHANGED <<qdata, sent>>
    /\ UNCHANGED <<env, fs, pipe, lock, qerr, rvars>>

\* write_all whose cursor moves on by one byte whatever libc::write returned.
write_all_advance_one(data, res) ==
    IF res.ret = 0 THEN [next |-> "err", data |-> data]
    ELSE IF res.ret = -1
         THEN IF is_eagain(res.errno) THEN [next |-> "more", data |-> data]
              ELSE [next |-> "err", data |-> data]
    ELSE LET rest == Advance(data, 1)
         IN [next |-> IF LoopDone(Len(rest)) THEN "ok" ELSE "more", data |-> rest]

\* write_all that returns the error of every failed libc::write, the
\* would-block condition included.
write_all_no_retry(data, res) ==
    IF res.ret = 0 \/ res.ret = -1 THEN [next |-> "err", data |-> data]
    ELSE LET rest == Advance(data, res.ret)
         IN [next |-> IF LoopDone(Len(rest)) THEN "ok" ELSE "more", data |-> rest]

\* write_all: what one libc::write result does to the loop.
\* "more": the loop goes on; "ok" / "err": write_all returns.
write_all(data, res) ==
    IF res.ret = 0 THEN [next |-> "err", data |-> data]
    ELSE IF res.ret = -1
         THEN IF is_eagain(res.errno) THEN [next |-> "more", data |-> data]
              ELSE [next |-> "err", data |-> data]
    ELSE LET rest == Advance(data, res.ret)
         IN [next |-> IF LoopDone(Len(rest)) THEN "ok" ELSE "more", data |-> rest]

\* One iteration of write_all's loop inside send.
Send_write(q) ==
    /\ qpc[q] = "sending"
    /\ \E res \in libc_write(Len(qdata[q])) :
         LET w == write_all(qdata[q], res)
         IN /\ pipe' = IF res.ret > 0 THEN pipe \o SubSeq(qdata[q], 1, res.ret) ELSE pipe
            /\ qdata' = [qdata EXCEPT ![q] = w.data]
            /\ qpc' = [qpc EXCEPT ![q] = IF w.next = "more" THEN "sending" ELSE "live"]
            /\ sent' = [sent EXCEPT ![Len(sent)] =
                           [payload |-> @.payload,
                            res |-> IF w.next = "more" THEN @.res ELSE w.next,
                            wrote |-> IF res.ret > 0
                                      THEN @.wrote \o SubSeq(qdata[q], 1, res.ret)
                                      ELSE @.wrote]]
    /\ UNCHANGED <<env, fs, lock, qlen, qerr, rvars>>

\* Drop for PipeQueue: libc::close(self.write_fd).  The handle is dropped by
\* its owner, or by the unwinding of a send() that panicked.
PipeQueue_drop(q) ==
    /\ qpc[q] \in {"live", "panicked"}
    /\ qpc' = [qpc EXCEPT ![q] = "dropped"]
    /\ pipe' = AfterClose(OpenReaders, OpenWriters \ {q})
    /\ UNCHANGED <<env, fs, lock, qdata, qlen, qerr, sent, rvars>>

\* --------------------------------------------------------- PipeReader::new
\* new: open(path, O_RDONLY | O_NONBLOCK, 0)?
PipeReader_new(r) ==
    /\ rpc[r] = "start"
    /\ \E nul \in BOOLEAN :
         LET res == libc_open(nul, FALSE)
             e == open(res)
         IN /\ IF e = NoError
               THEN /\ rpc' = [rpc EXCEPT ![r] = "idle"]
                    /\ rerr' = rerr
               ELSE /\ rpc' = [rpc EXCEPT ![r] = "failed"]
                    /\ rerr' = [rerr EXCEPT ![r] = e]
    /\ UNCHANGED <<env, fs, pipe, lock, qvars, rbuf, rneed, rlen, rlog>>

\* ----------------------------------------------------- PipeReader::receive
RECURSIVE SumLen(_, _)
SumLen(f, S) == IF S = {} THEN 0
                ELSE LET x == CHOOSE y \in S : TRUE IN Len(f[x]) + SumLen(f, S \ {x})

\* receive() calls made so far: those that returned and those under way.
Started ==
    SumLen(rlog, Readers) + Cardinality({r \in Readers : rpc[r] \in {"read_len", "read_payload"}})

\* receive, up to the first libc::read: the AdvisoryLock value is made and
\* read_message enters read_all with the 4-byte len_buf.
Receive_begin(r) ==
    /\ rpc[r] = "idle"
    /\ Started < MaxReceives
    /\ lock' = AdvisoryLock_new(lock, r)
    /\ rpc' = [rpc EXCEPT ![r] = "read_len"]
    /\ rbuf' = [rbuf EXCEPT ![r] = <<>>]
    /\ rneed' = [rneed EXCEPT ![r] = LenBytes]
    /\ rlen' = [rlen EXCEPT ![r] = 0]
    /\ UNCHANGED <<env, fs, pipe, qvars, rerr, rlog>>

\* read_all that retries when libc::read returns 0.
read_all_retry_zero(buf, need, res, bytes) ==
    IF res.ret = 0 \/ res.ret = -1
    THEN IF res.ret = 0 \/ is_eagain(res.errno)
         THEN [next |-> "more", buf |-> buf, need |-> need, err |-> NoError]
         ELSE [next |-> "err", buf |-> buf, need |-> need,
               err |-> Error_new("failed to read", res.errno)]
    ELSE [next |-> IF LoopDone(need - res.ret) THEN "ok" ELSE "more",
          buf |-> buf \o bytes, need |-> need - res.ret, err |-> NoError]

\* read_all: what one libc::read result does to the loop; `bytes` are the
\* bytes the kernel stored at the cursor.
read_all(buf, need, res, bytes) ==
    IF res.ret = 0
    THEN [next |-> "err", buf |-> buf, need |-> need,
          err |-> Error_new("failed to read all bytes", 0)]
    ELSE IF res.ret = -1
         THEN IF is_eagain(res.errno)
              THEN [next |-> "more", buf |-> buf, need |-> need, err |-> NoError]
              ELSE [next |-> "err", buf |-> buf, need |-> need,
                    err |-> Error_new("failed to read", res.errno)]
    ELSE [next |-> IF LoopDone(need - res.ret) THEN "ok" ELSE "more",
          buf |-> buf \o bytes, need |-> need - res.ret, err |-> NoError]

\* A payload read that calls libc::read before it looks at the buffer's length.
PayloadPhase_read_first(msg_len) == "read_payload"

\* A read_message that returns after the length, without reading the payload.
PayloadPhase_skip_read(msg_len) == "release"

\* read_message after the length is read: the payload's read_all returns at
\* once when msg_len is 0, and makes libc::read calls otherwise.
PayloadPhase(msg_len) == IF LoopDone(msg_len) THEN "release" ELSE "read_payload"

\* One iteration of read_all's loop inside read_message, with the code of
\* read_message that follows when the loop ends.
Receive_read(r) ==
    /\ rpc[r] \in {"read_len", "read_payload"}
    /\ \E res \in libc_read(rneed[r]) :
         LET n == IF res.ret > 0 THEN res.ret ELSE 0
             a == read_all(rbuf[r], rneed[r], res, SubSeq(pipe, 1, n))
             msg_len == from_be_bytes(a.buf)
         IN /\ pipe' = Advance(pipe, n)
            /\ CASE a.next = "more" ->
                      /\ rbuf' = [rbuf EXCEPT ![r] = a.buf]
                      /\ rneed' = [rneed EXCEPT ![r] = a.need]
                      /\ UNCHANGED <<rpc, rlen, rlog>>
                 [] a.next = "err" ->
                      /\ rpc' = [rpc EXCEPT ![r] = "release"]
                      /\ rlog' = [rlog EXCEPT ![r] = Append(@, Err(a.err))]
                      /\ rbuf' = [rbuf EXCEPT ![r] = <<>>]
                      /\ rneed' = [rneed EXCEPT ![r] = 0]
                      /\ UNCHANGED rlen
                 [] a.next = "ok" /\ rpc[r] = "read_len" ->
                      /\ rlen' = [rlen EXCEPT ![r] = msg_len]
                      /\ rpc' = [rpc EXCEPT ![r] = PayloadPhase(msg_len)]
                      /\ rbuf' = [rbuf EXCEPT ![r] = <<>>]
                      /\ rneed' = [rneed EXCEPT ![r] = msg_len]
                      /\ rlog' = IF PayloadPhase(msg_len) = "release"
                                 THEN [rlog EXCEPT ![r] = Append(@, Ok(<<>>))]
                                 ELSE rlog
                 [] a.next = "ok" /\ rpc[r] = "read_payload" ->
                      /\ rpc' = [rpc EXCEPT ![r] = "release"]
                      /\ rlog' = [rlog EXCEPT ![r] = Append(@, Ok(a.buf))]
                      /\ rbuf' = [rbuf EXCEPT ![r] = <<>>]
                      /\ rneed' = [rneed EXCEPT ![r] = 0]
                      /\ UNCHANGED rlen
    /\ UNCHANGED <<env, fs, lock, qvars, rerr>>

\* receive returns: _advisory_lock goes out of scope.
Receive_release(r) ==
    /\ rpc[r] = "release"
    /\ lock' = AdvisoryLock_drop(lock, r)
    /\ rpc' = [rpc EXCEPT ![r] = "idle"]
    /\ UNCHANGED <<env, fs, pipe, qvars, rbuf, rneed, rlen, rerr, rlog>>

\* Drop for PipeReader: libc::close(self.read_fd); the kernel drops a flock
\* held through the descriptor.
PipeReader_drop(r) ==
    /\ rpc[r] = "idle"
    /\ rpc' = [rpc EXCEPT ![r] = "closed"]
    /\ lock' = lock \ {r}
    /\ pipe' = AfterClose(OpenReaders \ {r}, OpenWriters)
    /\ UNCHANGED <<env, fs, qvars, rbuf, rneed, rlen, rerr, rlog>>

\* ------------------------------------------------------------------ Next
Next ==
    \/ \E q \in Queues : Create_mkfifo(q)
    \/ \E q \in Queues : Create_open(q)
    \/ \E q \in Queues : Send_begin(q)
    \/ \E q \in Queues : Send_write(q)
    \/ \E q \in Queues : PipeQueue_drop(q)
    \/ \E r \in Readers : PipeReader_new(r)
    \/ \E r \in Readers : Receive_begin(r)
    \/ \E r \in Readers : Receive_read(r)
    \/ \E r \in Readers : Receive_release(r)
    \/ \E r \in Readers : PipeReader_drop(r)

Spec == Init /\ [][Next]_vars

\* tests::test_mainline_scenario: a fresh path in a temporary directory,
\* every send carries b"Hello, reader!", the pipe has room for both frames,
\* and the kernel moves as many bytes per call as it can.
ScenarioCap == 2 * (LenBytes + Len(Hello))

InitScenario ==
    /\ env = [payloads |-> {Hello}, oversize |-> {}, cap |-> ScenarioCap, greedy |-> TRUE]
    /\ fs = "none"
    /\ TypeInit

SpecScenario == InitScenario /\ [][Next]_vars

\* ================================================================ claims
Last(s) == s[Len(s)]
Reading(r) == rpc[r] \in {"read_len", "read_payload"}
InReceive(r) == rpc[r] \in {"read_len", "read_payload", "release"}

\* The payloads of the send() calls, in call order.
SentPayloads == [i \in DOMAIN sent |-> sent[i].payload]

\* The payloads a reader's successful receive() calls returned, in order.
OkVals(r) ==
    LET idx == {i \in DOMAIN rlog[r] : rlog[r][i].ok}
        Nth[k \in 0..Len(rlog[r])] ==
            IF k = 0 THEN <<>>
            ELSE IF k \in idx THEN Append(Nth[k - 1], rlog[r][k].val) ELSE Nth[k - 1]
    IN Nth[Len(rlog[r])]

IsPrefix(s, t) == Len(s) <= Len(t) /\ \A i \in DOMAIN s : s[i] = t[i]

\* The reader handles that exist or existed.
Handles == {r \in Readers : rpc[r] \notin {"start", "failed"}}

\* C1 (round trip): with one Queue handle and one Reader handle on the pipe,
\* every receive() that returns successfully returns exactly the payload of
\* the send() it matches: the k-th returned payload is the k-th payload sent,
\* however the kernel split the writes and reads.
C1_RoundTrip ==
    Cardinality(Handles) <= 1 => \A r \in Readers : IsPrefix(OkVals(r), SentPayloads)

\* C1 witness: one reader handle has received two different non-empty
\* payloads, each equal to what was sent.
C1_Witness ==
    /\ Cardinality(Handles) = 1
    /\ \E r \in Readers : OkVals(r) = <<(<<7>>), (<<1>>)>> /\ SentPayloads = OkVals(r)

\* All payloads returned by successful receive() calls, over all readers.
Count(seq, v) == Cardinality({i \in DOMAIN seq : seq[i] = v})
Received(v) ==
    LET F[S \in SUBSET Readers] ==
            IF S = {} THEN 0
            ELSE LET r == CHOOSE x \in S : TRUE IN Count(OkVals(r), v) + F[S \ {r}]
    IN F[Readers]
ReceivedVals == UNION {{OkVals(r)[i] : i \in DOMAIN OkVals(r)} : r \in Readers}

\* C2 (mutual exclusion of consumption): with any number of readers
\* receiving concurrently, and no send() having failed, every payload
\* returned by a successful receive() is the payload of one send(), and no
\* sent frame is returned more often than it was sent.
C2_ExclusiveConsumption ==
    (\A i \in DOMAIN sent : sent[i].res # "err") =>
        \A v \in ReceivedVals : Received(v) <= Count(SentPayloads, v)

\* C3 (end-to-end scenario): with two readers receiving while "Hello, reader!"
\* is sent twice, every receive() that returns a payload returns exactly
\* those bytes.
C3_Scenario ==
    \A r \in Readers : \A i \in DOMAIN rlog[r] : rlog[r][i].ok => rlog[r][i].val = Hello

\* C4 (lock held during reads): a reader in the length-read or payload-read
\* phase holds the exclusive advisory lock, and at most one reader holds it,
\* so at most one reader is inside the read phases.
C4_LockHeldDuringReads ==
    /\ \A r \in Readers : Reading(r) => r \in lock
    /\ Cardinality(lock) <= 1
    /\ Cardinality({r \in Readers : Reading(r)}) <= 1

\* C5 (lock release): a reader that is not inside receive() (its call has
\* returned, with a payload or an error) does not hold the advisory lock.
C5_LockReleased ==
    \A r \in Readers : ~InReceive(r) => r \notin lock

\* C5 witness: one reader's receive() has returned an error at the payload
\* read, and a receive() on a different handle is past its first read.
C5_Witness ==
    \E r1, r2 \in Readers :
        /\ r1 # r2
        /\ rpc[r1] = "idle" /\ rlog[r1] # <<>> /\ ~Last(rlog[r1]).ok /\ rlen[r1] > 0
        /\ Reading(r2) /\ rbuf[r2] # <<>>

\* C6 (not found): PipeReader::new on a path where nothing exists fails with
\* an error that carries the not-found condition.
C6_NotFound ==
    \A r \in Readers : (rpc[r] = "failed" /\ fs = "none") => is_enoent(rerr[r].errno)

\* The readers run: a reader inside receive() keeps making its next call.
\* (Nothing is assumed of the producer or of the callers.)
FairSpec ==
    /\ Spec
    /\ \A r \in Readers : WF_vars(Receive_read(r)) /\ WF_vars(Receive_release(r))

\* A reader is reading a payload of which fewer bytes are in the pipe than
\* the length field declared, and no writer has the pipe open.
Truncated(r) == rpc[r] = "read_payload" /\ OpenWriters = {} /\ Len(pipe) < rneed[r]
Failed(r) == rpc[r] = "release" /\ rlog[r] # <<>> /\ ~Last(rlog[r]).ok

\* C7 (truncated stream): once the declared length exceeds the bytes that
\* follow and the writer is closed, receive() returns an error, and returns
\* no payload before that.
C7_TruncatedFails ==
    /\ \A r \in Readers : Truncated(r) ~> Failed(r)
    /\ [][\A r \in Readers :
            (Truncated(r) /\ rlog'[r] # rlog[r]) => ~Last(rlog'[r]).ok]_vars

\* C7 witness: a send() failed part-way, the queue handle was dropped, and the
\* only reader that ever called receive() read the length the frame declared
\* and then got the "failed to read all bytes" error.
C7_Witness ==
    /\ sent # <<>> /\ Last(sent).res = "err"
    /\ OpenWriters = {}
    /\ \E r \in Readers :
         /\ Failed(r)
         /\ rlen[r] = Len(Last(sent).payload) /\ rlen[r] > 0
         /\ Last(rlog[r]).err.message = "failed to read all bytes"
         /\ \A o \in Readers \ {r} : rlog[o] = <<>> /\ ~InReceive(o)

\* In this step reader r read the last bytes of a length field that is 0.
ZeroLengthRead(r) ==
    /\ rpc[r] = "read_len" /\ rpc'[r] # "read_len"
    /\ Len(pipe) >= rneed[r] /\ pipe' = Advance(pipe, rneed[r])
    /\ from_be_bytes(rbuf[r] \o SubSeq(pipe, 1, rneed[r])) = 0

\* C8 (zero-length message): send(empty) writes the four bytes 0 0 0 0, and
\* the read that completes a length field of 0 ends receive() with the empty
\* payload: no payload read follows and no further byte is consumed.
C8_ZeroLength ==
    [][/\ \A q \in Queues :
            (qpc[q] = "live" /\ qpc'[q] = "sending" /\ Last(sent').payload = <<>>)
                => qdata'[q] = <<0, 0, 0, 0>>
       /\ \A r \in Readers :
            ZeroLengthRead(r) =>
                /\ rpc'[r] = "release"
                /\ rlog'[r] = Append(rlog[r], Ok(<<>>))]_vars

\* C8 witness: an empty payload was sent and then a second frame; the reader
\* returned the empty payload and the second frame's bytes are still in the
\* pipe.
C8_Witness ==
    /\ Len(sent) = 2 /\ sent[1].payload = <<>> /\ sent[2].res = "ok"
    /\ \E r \in Readers :
         /\ rpc[r] = "release" /\ rlog[r] = <<Ok(<<>>)>>
         /\ pipe = Frame(sent[2].payload)

\* Every error a receive() returned.
NoEagainError ==
    \A r \in Readers : \A i \in DOMAIN rlog[r] : ~is_eagain(rlog[r][i].err.errno)

\* C9 (would-block is never surfaced): no receive() returns the would-block
\* condition as an error; while the pipe is empty and a writer has it open, a
\* reading receive() keeps its phase, cursor and buffer and returns nothing;
\* while the pipe is full and a reader has it open, a send() keeps its cursor
\* and returns nothing.
C9_WouldBlockRetried ==
    /\ []NoEagainError
    /\ [][/\ \A r \in Readers :
               (Reading(r) /\ pipe = <<>> /\ OpenWriters # {}) =>
                   /\ rpc'[r] = rpc[r] /\ rbuf'[r] = rbuf[r]
                   /\ rneed'[r] = rneed[r] /\ rlog'[r] = rlog[r]
          /\ \A q \in Queues :
               (qpc[q] = "sending" /\ Len(pipe) >= env.cap /\ OpenReaders # {}) =>
                   /\ qpc'[q] = "sending" /\ qdata'[q] = qdata[q] /\ sent' = sent]_vars

\* C9 witness: a receive() is in the middle of a length field with the pipe
\* empty and the writer open, in the middle of a send().
C9_Witness ==
    /\ pipe = <<>>
    /\ \E q \in Queues : qpc[q] = "sending" /\ Len(qdata[q]) < Len(Frame(Last(sent).payload))
    /\ \E r \in Readers : rpc[r] = "read_len" /\ rbuf[r] # <<>>

\* C10 (single writer): at most one live Queue handle exists, whatever the
\* number of reader handles; a create on a path where something exists fails
\* with an I/O error carrying the OS error code, opens nothing and leaves
\* the path as it is.
C10_SingleWriter ==
    /\ [](Cardinality(OpenWriters) <= 1)
    /\ [][\A q \in Queues :
            (qpc[q] = "start" /\ fs # "none" /\ qpc'[q] # "start") =>
                /\ qpc'[q] = "failed"
                /\ qerr'[q] = Error_new("failed to create FIFO", EEXIST)
                /\ fs' = fs]_vars

\* C10 witness: one queue handle is live, every reader handle is open, and
\* another create on the path has failed.
C10_Witness ==
    /\ Cardinality(OpenWriters) = 1
    /\ OpenReaders = Readers
    /\ \E q \in Queues : qpc[q] = "failed" /\ qerr[q].errno = EEXIST

\* C11 (the FIFO is never deleted): once the FIFO entry exists at the path,
\* no step of the library (send, receive, opening a reader, dropping a
\* handle, a create that fails) removes or replaces it.
C11_FifoNeverDeleted == [][fs = "fifo" => fs' = "fifo"]_vars

\* C11 witness: a create made the FIFO, a later create on the path failed,
\* the queue handle was used and dropped, every reader handle was opened,
\* one received, all are closed, and the FIFO is still there.
C11_Witness ==
    /\ fs = "fifo"
    /\ \E q1, q2 \in Queues :
         /\ qpc[q1] = "dropped" /\ qpc[q2] = "failed" /\ qerr[q2].errno = EEXIST
    /\ \A r \in Readers : rpc[r] = "closed"
    /\ \E r \in Readers : rlog[r] # <<>> /\ rlog[r][1].ok
    /\ sent # <<>>

\* The length fits in an unsigned 32-bit integer.
FitsU32(n) == n.hi < Limb

\* C12 (oversized payload): a send() whose payload length does not fit in
\* u32 panics before any byte is written: the call neither enters the write
\* loop nor returns, nothing is added to the pipe, and no frame (with a
\* truncated or wrapped length) is built.
C12_TooLongPanics ==
    /\ [](\A q \in Queues : qpc[q] = "sending" => FitsU32(qlen[q]))
    /\ [][\A q \in Queues :
            (qpc[q] = "live" /\ qlen'[q] # qlen[q] /\ ~FitsU32(qlen'[q])) =>
                /\ qpc'[q] = "panicked"
                /\ pipe' = pipe /\ qdata' = qdata /\ sent' = sent]_vars

\* C12 witness: after a send() that succeeded, a send() of 2^32 + 1 bytes
\* panicked, and the pipe holds the first frame only.
C12_Witness ==
    \E q \in Queues :
        /\ qpc[q] = "panicked" /\ qlen[q] = [hi |-> Limb, lo |-> 1]
        /\ Len(sent) = 1 /\ sent[1].res = "ok"
        /\ pipe = Frame(sent[1].payload)

\* C13 (frame integrity on the write side): the bytes a successful send(P)
\* appended to the pipe, over all its writes, are exactly the 4-byte
\* big-endian length of P followed by P; and the byte stream is whole frames
\* followed by at most one prefix: no byte of a later send follows a frame
\* that is not whole.
C13_FrameIntegrity ==
    /\ \A i \in DOMAIN sent :
         sent[i].res = "ok" => sent[i].wrote = Frame(sent[i].payload)
    /\ \A i, j \in DOMAIN sent :
         (i < j /\ sent[j].wrote # <<>>) =>
             sent[i].wrote \in {<<>>, Frame(sent[i].payload)}

\* In this step reader r's receive() got its result.
Returned(r) == rlog'[r] # rlog[r]

\* C14 (receive is all-or-nothing): receive() reads the length, then the
\* payload, then releases.  A failure while reading the length returns the
\* error with no payload read attempted; a failure while reading the payload
\* returns the error and none of the bytes read; a successful result has
\* exactly the declared length.
C14_ReceiveAllOrNothing ==
    [][\A r \in Readers :
        /\ (rpc[r] = "idle" /\ rpc'[r] # "idle") => rpc'[r] \in {"read_len", "closed"}
        /\ rpc[r] = "read_len" => rpc'[r] \in {"read_len", "read_payload", "release"}
        /\ rpc[r] = "read_payload" => rpc'[r] \in {"read_payload", "release"}
        /\ rpc[r] = "release" => rpc'[r] \in {"release", "idle"}
        /\ Returned(r) =>
             /\ Reading(r) /\ rpc'[r] = "release"
             /\ rlog'[r] = Append(rlog[r], Last(rlog'[r]))
        /\ (Returned(r) /\ ~Last(rlog'[r]).ok) =>
             /\ Last(rlog'[r]).val = <<>>
             /\ rlen'[r] = rlen[r]
        /\ (Returned(r) /\ Last(rlog'[r]).ok) =>
             /\ Len(Last(rlog'[r]).val) = rlen'[r]
             /\ Last(rlog'[r]).err = NoError]_vars

\* C14 witness: one receive() returned a payload of the declared length 1,
\* and a receive() on another handle read a length of 1 and then failed at
\* the payload read.
C14_Witness ==
    \E r1, r2 \in Readers :
        /\ rlog[r1] = <<Ok(<<7>>)>>
        /\ Len(rlog[r2]) = 1 /\ ~rlog[r2][1].ok /\ rlen[r2] = 1
        /\ rlog[r2][1].err.message = "failed to read all bytes"

\* The producer and the readers run: a send() or receive() that is under way
\* keeps making its next call.
FairSpecSend ==
    /\ FairSpec
    /\ \A q \in Queues : WF_vars(Send_write(q))

PipeFull == Len(pipe) >= env.cap
Sending == \E q \in Queues : qpc[q] = "sending"
SendOk == sent # <<>> /\ Last(sent).res = "ok"

\* C15 (progress under backpressure): a full pipe never makes send() return
\* an error: while a reader has the pipe open, a send() that returns returns
\* success with its whole frame written.  And when readers keep the pipe
\* open and keep draining it (a full pipe is always followed by a pipe with
\* room), every send() under way returns success.
C15_Backpressure ==
    /\ [][\A q \in Queues :
            (qpc[q] = "sending" /\ OpenReaders # {} /\ qpc'[q] # "sending") =>
                /\ Last(sent').res = "ok"
                /\ Last(sent').wrote = Frame(Last(sent').payload)]_vars
    /\ ([](Sending => OpenReaders # {}) /\ [](PipeFull => <>~PipeFull)) =>
           \A q \in Queues :
               qpc[q] = "sending" ~> (qpc[q] = "live" /\ SendOk)

\* C15 witness: a send() of a frame longer than the pipe's capacity has
\* returned success, and its last byte is still in the pipe.
C15_Witness ==
    /\ sent # <<>> /\ Last(sent).res = "ok"
    /\ Len(Frame(Last(sent).payload)) > env.cap
    /\ pipe # <<>> /\ \E q \in Queues : qpc[q] = "live"

\* C16 (producer-first start-up): a create on a fresh path makes the FIFO,
\* and its open of the write handle, made while no reader has the FIFO open,
\* succeeds and gives the caller a Queue handle.
C16_ProducerFirst ==
    [][\A q \in Queues :
        /\ (qpc[q] = "start" /\ fs = "none" /\ qpc'[q] # "start") =>
               fs' = "fifo" /\ qpc'[q] = "opening"
        /\ (qpc[q] = "opening" /\ OpenReaders = {} /\ qpc'[q] # "opening") =>
               qpc'[q] = "live"]_vars

\* Bytes appended to the pipe by all send() calls, and the bytes of the
\* frames of the first k of them.
RECURSIVE WrittenUpTo(_)
WrittenUpTo(k) == IF k = 0 THEN 0 ELSE Len(sent[k].wrote) + WrittenUpTo(k - 1)
RECURSIVE FrameBytes(_)
FrameBytes(k) ==
    IF k = 0 THEN 0 ELSE LenBytes + Len(sent[k].payload) + FrameBytes(k - 1)

\* Bytes taken out of the pipe by reads (while a descriptor has kept the
\* buffer alive).
Consumed == WrittenUpTo(Len(sent)) - Len(pipe)

\* C17 (FIFO order for a single consumer): with one Queue handle and one
\* Reader handle, whenever the open reader is not in the middle of a read,
\* its k successful receive() calls returned the payloads of the first k
\* sends, in send order, and the reads have consumed exactly the 4 + N bytes
\* of each of these k frames: the read position is at a frame boundary.
C17_FifoOrder ==
    Cardinality(Handles) <= 1 =>
        \A r \in OpenReaders :
            ~Reading(r) =>
                LET k == Len(OkVals(r))
                IN /\ k <= Len(sent)
                   /\ \A i \in 1..k : OkVals(r)[i] = sent[i].payload
                   /\ Consumed = FrameBytes(k)

\* C17 witness: the single reader has received the empty payload and then
\* <<7>>, as sent; its second call is returning and the pipe is empty.
C17_Witness ==
    /\ Cardinality(Handles) = 1
    /\ \E r \in OpenReaders :
         /\ rpc[r] = "release"
         /\ OkVals(r) = <<(<<>>), (<<7>>)>>
         /\ SentPayloads = OkVals(r)
    /\ pipe = <<>>

\* The queue handle was dropped and no writer has the pipe open.
WriterClosed == OpenWriters = {} /\ \E q \in Queues : qpc[q] = "dropped"

\* The payloads of the send() calls that returned success.
OkSent == {sent[i].payload : i \in {j \in DOMAIN sent : sent[j].res = "ok"}}
CountOk(v) == Cardinality({i \in DOMAIN sent : sent[i].res = "ok" /\ sent[i].payload = v})

\* No reader handle has been closed: the readers that are open were open
\* when the queue handle was dropped, or joined readers that were.
NoReaderClosed == \A r \in Readers : rpc[r] # "closed"

\* C18 (delivery after writer close): while the readers that were open when
\* the Queue handle was dropped stay open, a receive() that returns after
\* the drop returns either the whole payload of a send() that had returned
\* success, or the "failed to read all bytes" error; the error is returned
\* only by a read that found the pipe empty, and only when every frame sent
\* with success has been returned.
C18_DeliveryAfterClose ==
    [][\A r \in Readers :
        (Returned(r) /\ WriterClosed /\ NoReaderClosed) =>
            IF Last(rlog'[r]).ok
            THEN Last(rlog'[r]).val \in OkSent
            ELSE /\ Last(rlog'[r]).err.message = "failed to read all bytes"
                 /\ pipe = <<>>
                 /\ \A v \in OkSent : Received(v) >= CountOk(v)]_vars

\* The create of context q failed at its open, after it made the FIFO.
FailedAtOpen(q) == qpc[q] = "failed" /\ qerr[q].message = "Failed to open file"

\* C19 (state after a failed create): a create that fails at the FIFO
\* creation opens no descriptor and leaves the path as it was; a create that
\* fails at the open leaves the FIFO in place and returns no handle, and from
\* then on every other create on the path fails at its FIFO creation.
C19_FailedCreate ==
    /\ [][\A q \in Queues :
            /\ (qpc[q] = "start" /\ qpc'[q] = "failed") =>
                   /\ fs' = fs /\ pipe' = pipe
                   /\ OpenWriters' = OpenWriters
                   /\ qerr'[q].message = "failed to create FIFO"
            /\ (qpc[q] = "opening" /\ qpc'[q] = "failed") =>
                   /\ fs' = "fifo" /\ pipe' = pipe
                   /\ OpenWriters' = OpenWriters
                   /\ FailedAtOpen(q)']_vars
    /\ [](\A q \in Queues :
            FailedAtOpen(q) =>
                /\ fs = "fifo"
                /\ q \notin OpenWriters
                /\ \A p \in Queues \ {q} :
                     /\ qpc[p] \in {"start", "failed"}
                     /\ qpc[p] = "failed" =>
                            qerr[p] = Error_new("failed to create FIFO", EEXIST))

\* C19 witness: on a path that was fresh, one create failed at its open and
\* a later create failed at its FIFO creation; no writer is open and a
\* reader handle is.
C19_Witness ==
    /\ \E q, p \in Queues :
         /\ FailedAtOpen(q)
         /\ qpc[p] = "failed" /\ qerr[p].errno = EEXIST
    /\ OpenWriters = {} /\ OpenReaders # {}
    /\ fs = "fifo"

====
